---- MODULE Spec2Model ----
(***************************************************************************)
(* Case Timeline Builder (case_builder3.py): the in-memory case registry,  *)
(* the document-submission pipeline (extension check, registration, text   *)
(* extraction, LLM analysis, recording), the read-time timeline            *)
(* reconciliation, the importance toggle and the chat endpoint.            *)
(*                                                                         *)
(* Strings that the code parses are modelled by their token structure:     *)
(*   - a date string is a record [fmt, month, day, year]; fmt is the shape *)
(*     of the text ("MDY" = "Month DD, YYYY", "MY" = "Month, YYYY",        *)
(*     "Y" = "YYYY", "other" = anything else);                             *)
(*   - a file name is the sequence of its dot-separated parts;             *)
(*   - a text is a sequence of characters; an event summary is a sequence  *)
(*     of text fragments.                                                  *)
(* A datetime is a record [year, month, day, second] (second of the day),  *)
(* ordered lexicographically.  The fields file_path and upload_date of a   *)
(* stored document are written but never read by any handler and are left  *)
(* out of the document records.                                            *)
(***************************************************************************)
EXTENDS Integers, Sequences, FiniteSets, TLC

VARIABLES
    cases,       \* cases: case_id -> created_at
    case_files,  \* case_files: case_id -> list of document records
    pending,     \* requests suspended at `await file.read()`
    now,         \* the wall clock (datetime.now())
    last         \* the last request handled and its response

vars == <<cases, case_files, pending, now, last>>

(***************************************************************************)
(* Bounds                                                                  *)
(***************************************************************************)
MaxTicks == 1      \* clock seconds that elapse after start
MaxDocs == 2       \* documents recorded per case
MaxPending == 1    \* requests suspended at the same time
MaxCases == 1      \* case identifiers registered
MaxOverlap == 3    \* requests suspended at the same time, when requests overlap
MaxAppended == 3   \* documents recorded per case, when requests overlap
MaxPages == 2      \* pages of a PDF handed to extract_text

(***************************************************************************)
(* Generic helpers                                                         *)
(***************************************************************************)
Min(a, b) == IF a <= b THEN a ELSE b

RECURSIVE Concat(_)
Concat(ss) == IF ss = <<>> THEN <<>> ELSE Head(ss) \o Concat(Tail(ss))

Range(s) == {s[i] : i \in 1..Len(s)}

\* dict.update / item assignment on a dict: keys of g override keys of f
Updated(f, g) ==
    [k \in (DOMAIN f) \cup (DOMAIN g) |-> IF k \in DOMAIN g THEN g[k] ELSE f[k]]

RemoveAt(s, i) == SubSeq(s, 1, i - 1) \o SubSeq(s, i + 1, Len(s))

(***************************************************************************)
(* Dates and the clock                                                     *)
(***************************************************************************)
Date(fmt, m, d, y) == [fmt |-> fmt, month |-> m, day |-> d, year |-> y]

DateTime(y, m, d, s) == [year |-> y, month |-> m, day |-> d, second |-> s]

IsLeap(y) == (y % 4 = 0 /\ y % 100 # 0) \/ y % 400 = 0

DaysInMonth(y, m) ==
    IF m = 2 THEN (IF IsLeap(y) THEN 28 + 1 ELSE 28)
    ELSE IF m \in {4, 6, 9, 11} THEN 30 ELSE 30 + 1

LastSecond == 24 * 60 * 60 - 1

\* datetime ordering: lexicographic on (year, month, day, second)
Before(a, b) ==
    \/ a.year < b.year
    \/ a.year = b.year /\ a.month < b.month
    \/ a.year = b.year /\ a.month = b.month /\ a.day < b.day
    \/ a.year = b.year /\ a.month = b.month /\ a.day = b.day /\ a.second < b.second

NotAfter(a, b) == ~Before(b, a)

\* the clock one second later
NextSecond(t) ==
    IF t.second < LastSecond THEN [t EXCEPT !.second = @ + 1]
    ELSE IF t.day < DaysInMonth(t.year, t.month)
         THEN [t EXCEPT !.second = 0, !.day = @ + 1]
         ELSE IF t.month < 12
              THEN [t EXCEPT !.second = 0, !.day = 1, !.month = @ + 1]
              ELSE DateTime(t.year + 1, 1, 1, 0)

\* datetime.now().strftime("%B %d, %Y")
strftime_BdY(t) == Date("MDY", t.month, t.day, t.year)

\* f"CASE_{datetime.now().strftime('%Y%m%d%H%M%S')}": one identifier per clock second
MakeCaseId(t) == [year |-> t.year, month |-> t.month, day |-> t.day, second |-> t.second]

(***************************************************************************)
(* extract_text                                                            *)
(***************************************************************************)
Whitespace == {" ", "\n"}

\* str.strip() leaves something
HasText(text) == \E i \in 1..Len(text) : text[i] \notin Whitespace

MaxChars == 5000

\* text[:5000]
Truncate(text) == SubSeq(text, 1, Min(Len(text), MaxChars))

RECURSIVE JoinLines(_)
\* "\n".join(text_parts)
JoinLines(parts) ==
    IF parts = <<>> THEN <<>>
    ELSE IF Len(parts) = 1 THEN parts[1]
    ELSE parts[1] \o <<"\n">> \o JoinLines(Tail(parts))

\* PyPDF2 pass: the page texts that are truthy, concatenated
DirectText(pages) ==
    Concat([i \in 1..Len(pages) |-> pages[i].layer])

\* pytesseract pass: the page results that are non-blank, joined by newlines
OcrText(pages) ==
    JoinLines(SelectSeq([i \in 1..Len(pages) |-> pages[i].ocr], HasText))

\* raise HTTPException(status_code=400, ...) / return text[:5000]
ExtractFailed(ocr) == [ok |-> FALSE, text |-> <<>>, ocr_run |-> ocr]
Extracted(text, ocr) == [ok |-> TRUE, text |-> Truncate(text), ocr_run |-> ocr]

RECURSIVE JoinSpaces(_)
\* " ".join(paragraph texts)
JoinSpaces(parts) ==
    IF parts = <<>> THEN <<>>
    ELSE IF Len(parts) = 1 THEN parts[1]
    ELSE parts[1] \o <<" ">> \o JoinSpaces(Tail(parts))

\* extract_text without the check of line 152 for a PDF without pages
extract_text_NoPageCheck(content, file_type) ==
    IF file_type = "pdf" THEN
        IF HasText(DirectText(content.pages))
        THEN Extracted(DirectText(content.pages), FALSE)
        ELSE IF HasText(OcrText(content.pages))
             THEN Extracted(OcrText(content.pages), TRUE)
             ELSE ExtractFailed(TRUE)
    ELSE IF file_type = "docx" THEN
        LET text == JoinSpaces(SelectSeq(content.paragraphs, HasText)) IN
        IF HasText(text) THEN Extracted(text, FALSE) ELSE ExtractFailed(FALSE)
    ELSE IF file_type = "txt" THEN
        IF HasText(content.text) THEN Extracted(content.text, FALSE)
        ELSE ExtractFailed(FALSE)
    ELSE ExtractFailed(FALSE)

\* content: [size, text, pages, paragraphs]; file_type selects the reader
extract_text(content, file_type) ==
    IF file_type = "pdf" THEN
        IF Len(content.pages) = 0 THEN ExtractFailed(FALSE)
        ELSE IF HasText(DirectText(content.pages))
             THEN Extracted(DirectText(content.pages), FALSE)
             ELSE IF HasText(OcrText(content.pages))
                  THEN Extracted(OcrText(content.pages), TRUE)
                  ELSE ExtractFailed(TRUE)
    ELSE IF file_type = "docx" THEN
        LET text == JoinSpaces(SelectSeq(content.paragraphs, HasText)) IN
        IF HasText(text) THEN Extracted(text, FALSE) ELSE ExtractFailed(FALSE)
    ELSE IF file_type = "txt" THEN
        IF HasText(content.text) THEN Extracted(content.text, FALSE)
        ELSE ExtractFailed(FALSE)
    ELSE ExtractFailed(FALSE)

\* str.lower() on the extensions that occur
Lower(part) ==
    IF part = "PDF" THEN "pdf"
    ELSE IF part = "TXT" THEN "txt"
    ELSE IF part = "DOCX" THEN "docx"
    ELSE part

\* file.filename.split(".")[-1].lower()
FileExt(file_name) == Lower(file_name[Len(file_name)])

SupportedExts == {"pdf", "docx", "txt"}

(***************************************************************************)
(* call_llm_api                                                            *)
(***************************************************************************)
required_keys == {"parties", "timeline", "issues", "grounds", "mismatches"}

\* the record returned by the `except Exception` handler
FallbackRecord(file_name, t) ==
    [timeline |-> << [document_date |-> strftime_BdY(t),
                      summary |-> <<"Error processing">> \o file_name,
                      is_important |-> FALSE] >>,
     issues |-> [plaintiff |-> <<"Error identifying issues">>,
                 defendant |-> <<"Error identifying issues">>],
     grounds |-> [plaintiff |-> <<"Error identifying grounds">>,
                  defendant |-> <<"Error identifying grounds">>],
     mismatches |-> <<"Error analyzing mismatches">>,
     parties |-> [plaintiff |-> "Unknown", defendant |-> "Unknown"]]

\* the loop leaves a flag the LLM supplied as it is
StampEvents_KeepsSupplied(parsed) ==
    [parsed EXCEPT !.timeline =
        [i \in 1..Len(@) |->
            IF "is_important" \in DOMAIN @[i] THEN @[i]
            ELSE Updated(@[i], [is_important |-> FALSE])]]

\* event["is_important"] = False for every event of parsed_output["timeline"]
StampEvents(parsed) ==
    [parsed EXCEPT !.timeline =
        [i \in 1..Len(@) |-> Updated(@[i], [is_important |-> FALSE])]]

\* The body of the try block: the exception it ends with ("none" when it
\* returns) and the value it returns.
\*   reply.kind = "OpenAIError": client.chat.completions.create raises
\*   reply.kind = "text":        the content is not JSON, json.loads raises
\*   reply.kind = "json":        reply.body is the parsed object
TryAnalysis(reply) ==
    IF reply.kind = "OpenAIError" THEN [exc |-> "OpenAIError", value |-> <<>>]
    ELSE IF reply.kind = "text" THEN [exc |-> "JSONDecodeError", value |-> <<>>]
    ELSE IF "timeline" \notin DOMAIN reply.body
         THEN [exc |-> "KeyError", value |-> <<>>]
    ELSE IF ~(required_keys \subseteq DOMAIN reply.body)
         THEN [exc |-> "HTTPException", value |-> <<>>]
    ELSE [exc |-> "none", value |-> StampEvents(reply.body)]

\* a try statement without the `except openai.OpenAIError` clause
AnalysisHandler_AbsorbsAll(exc) ==
    IF exc = "none" THEN "return" ELSE "fallback"

\* Which handler of the try statement takes an exception: `except
\* openai.OpenAIError` re-raises as HTTPException(500); `except Exception`
\* takes every other exception, the HTTPException of the validation included.
AnalysisHandler(exc) ==
    IF exc = "none" THEN "return"
    ELSE IF exc = "OpenAIError" THEN "raise"
    ELSE "fallback"

call_llm_api(reply, file_name, t) ==
    LET r == TryAnalysis(reply)
        h == AnalysisHandler(r.exc)
    IN  IF h = "return" THEN [ok |-> TRUE, value |-> r.value]
        ELSE IF h = "raise" THEN [ok |-> FALSE, value |-> <<>>]
        ELSE [ok |-> TRUE, value |-> FallbackRecord(file_name, t)]

\* the document record built by create_case / update_case
MakeDocument(req, analysis) ==
    [file_name |-> req.file_name,
     timeline |-> analysis.timeline,
     issues |-> analysis.issues,
     grounds |-> analysis.grounds,
     parties |-> analysis.parties,
     mismatches |-> IF "mismatches" \in DOMAIN analysis THEN analysis.mismatches
                    ELSE <<"No mismatches identified">>,
     document_tag |-> req.document_tag,
     key_events_tag |-> req.key_events_tag]

(***************************************************************************)
(* get_timeline: the merged view                                           *)
(***************************************************************************)
\* parse_date without the "%B, %Y" attempt
parse_date_NoMonthYear(date_str, t) ==
    IF /\ date_str.fmt = "MDY"
       /\ date_str.month \in 1..12
       /\ date_str.day \in 1..DaysInMonth(date_str.year, date_str.month)
    THEN DateTime(date_str.year, date_str.month, date_str.day, 0)
    ELSE IF date_str.fmt = "Y"
    THEN DateTime(date_str.year, 1, 1, 0)
    ELSE t

\* parse_date: strptime with "%B %d, %Y", then "%B, %Y", then "%Y", then
\* datetime.now()
parse_date(date_str, t) ==
    IF /\ date_str.fmt = "MDY"
       /\ date_str.month \in 1..12
       /\ date_str.day \in 1..DaysInMonth(date_str.year, date_str.month)
    THEN DateTime(date_str.year, date_str.month, date_str.day, 0)
    ELSE IF date_str.fmt = "MY" /\ date_str.month \in 1..12
    THEN DateTime(date_str.year, date_str.month, 1, 0)
    ELSE IF date_str.fmt = "Y"
    THEN DateTime(date_str.year, 1, 1, 0)
    ELSE t

\* a sort that is not stable: e goes in front of the elements with its own key
InsertByDate_Unstable(sorted, e, t) ==
    LET k == parse_date(e.document_date, t)
        later == {i \in 1..Len(sorted) :
                    ~Before(parse_date(sorted[i].document_date, t), k)}
        at == IF later = {} THEN Len(sorted) + 1
              ELSE CHOOSE i \in later : \A j \in later : i <= j
    IN  SubSeq(sorted, 1, at - 1) \o <<e>> \o SubSeq(sorted, at, Len(sorted))

\* one step of a stable sort: e goes behind every element whose key is not
\* after its own
InsertByDate(sorted, e, t) ==
    LET k == parse_date(e.document_date, t)
        later == {i \in 1..Len(sorted) : Before(k, parse_date(sorted[i].document_date, t))}
        at == IF later = {} THEN Len(sorted) + 1
              ELSE CHOOSE i \in later : \A j \in later : i <= j
    IN  SubSeq(sorted, 1, at - 1) \o <<e>> \o SubSeq(sorted, at, Len(sorted))

RECURSIVE SortedByDate(_, _)
\* sorted(combined_timeline, key=lambda x: parse_date(x["document_date"]))
SortedByDate(timeline, t) ==
    IF timeline = <<>> THEN <<>>
    ELSE InsertByDate(SortedByDate(SubSeq(timeline, 1, Len(timeline) - 1), t),
                      timeline[Len(timeline)], t)

\* combined_timeline.extend(file_data["timeline"]) over the documents
CombinedTimeline(files) == Concat([d \in 1..Len(files) |-> files[d].timeline])

\* the "timeline" of the response of GET /timeline/{case_id} at time t
MergedTimeline(cf, case_id, t) ==
    SortedByDate(CombinedTimeline(IF case_id \in DOMAIN cf THEN cf[case_id] ELSE <<>>), t)

RECURSIVE MergedParties_FirstWins(_, _)
\* a merge in which a field keeps the value of the first document that set it
MergedParties_FirstWins(parties, files) ==
    IF files = <<>> THEN parties
    ELSE Updated(MergedParties_FirstWins(parties, Tail(files)), Head(files).parties)

RECURSIVE MergedParties(_, _)
\* parties.update(file_data["parties"]) over the documents, in storage order
MergedParties(parties, files) ==
    IF files = <<>> THEN parties
    ELSE MergedParties(Updated(parties, Head(files).parties), Tail(files))

RECURSIVE Distinct(_)
\* list(set(xs)): the elements of xs, each once.  The order is that of the
\* set's iteration, which nothing relies on; here it is the order of the first
\* occurrences.
Distinct(xs) ==
    IF xs = <<>> THEN <<>>
    ELSE LET front == SubSeq(xs, 1, Len(xs) - 1)
             x == xs[Len(xs)]
         IN  IF x \in Range(front) THEN Distinct(front)
             ELSE Append(Distinct(front), x)

\* the merged list without the set(): every contributed string, repeats included
Deduplicated_KeepsRepeats(xs, placeholder) == IF xs # <<>> THEN xs ELSE <<placeholder>>

\* list(set(xs)) if xs else [placeholder]
Deduplicated(xs, placeholder) == IF xs # <<>> THEN Distinct(xs) ELSE <<placeholder>>

\* The subscripts of lines 322-325 and of the sort key raise KeyError on a
\* document whose issues or grounds lack a party role, or on an event without
\* "document_date"; the request then fails.
ReadFails(files) ==
    \E d \in 1..Len(files) :
        \/ ~({"plaintiff", "defendant"} \subseteq DOMAIN files[d].issues)
        \/ ~({"plaintiff", "defendant"} \subseteq DOMAIN files[d].grounds)
        \/ \E k \in 1..Len(files[d].timeline) :
               "document_date" \notin DOMAIN files[d].timeline[k]

\* the response body of GET /timeline/{case_id} for the documents `files`
\* (when the read does not fail)
MergedView(files, t) ==
    LET parties == MergedParties([plaintiff |-> "Unknown Plaintiff",
                                  defendant |-> "Unknown Defendant"], files)
        seqOf(F(_)) == Concat([d \in 1..Len(files) |-> F(files[d])])
        pi(d) == d.issues.plaintiff
        di(d) == d.issues.defendant
        pg(d) == d.grounds.plaintiff
        dg(d) == d.grounds.defendant
        mm(d) == d.mismatches
        dt(d) == <<d.document_tag>>
        kt(d) == <<d.key_events_tag>>
    IN  [parties |-> parties,
         timeline |-> SortedByDate(CombinedTimeline(files), t),
         plaintiff_issues |-> Deduplicated(seqOf(pi), "No issues identified for " \o parties.plaintiff \o "."),
         defendant_issues |-> Deduplicated(seqOf(di), "No issues identified for " \o parties.defendant \o "."),
         mismatches |-> Deduplicated(seqOf(mm),
                          "No facts identified that conflict with the Indian Constitution."),
         plaintiff_grounds |-> Deduplicated(seqOf(pg), "No strong grounds identified for " \o parties.plaintiff \o "."),
         defendant_grounds |-> Deduplicated(seqOf(dg), "No strong grounds identified for " \o parties.defendant \o "."),
         document_tags |-> Deduplicated(seqOf(dt), "No document tags available"),
         key_events_tags |-> Deduplicated(seqOf(kt), "No key events tags available")]

\* case_files.get(case_id, [])
FilesOf(cf, case_id) == IF case_id \in DOMAIN cf THEN cf[case_id] ELSE <<>>

(***************************************************************************)
(* toggle_important                                                        *)
(***************************************************************************)
\* event.get("is_important", False)
GetImportant(event) ==
    IF "is_important" \in DOMAIN event THEN event.is_important ELSE FALSE

\* the bounds check off by one at the upper end
InvalidIndex_OffByOne(event_index, n) == event_index < 0 \/ event_index > n

\* if event_index < 0 or event_index >= len(combined_timeline)
InvalidIndex(event_index, n) == event_index < 0 \/ event_index >= n

\* list indexing: a negative index counts from the end, an index outside
\* -n..n-1 raises IndexError
InRange(index, n) == -n <= index /\ index < n
PyIndex(index, n) == IF index < 0 THEN n + index ELSE index

\* Position of the event at storage ordinal n (0-based) of the concatenated
\* timelines: <<document, index in the document>>, both 1-based
RECURSIVE Locate(_, _, _)
Locate(files, d, n) ==
    IF n < Len(files[d].timeline) THEN <<d, n + 1>>
    ELSE Locate(files, d + 1, n - Len(files[d].timeline))

\* a toggle that marks the event instead of inverting its flag
FlipEvent_Marks(files, event_index) ==
    LET at == Locate(files, 1, PyIndex(event_index, Len(CombinedTimeline(files))))
        ev == files[at[1]].timeline[at[2]]
    IN  [files EXCEPT ![at[1]].timeline[at[2]] =
            Updated(ev, [is_important |-> TRUE])]

\* combined_timeline[event_index]["is_important"] = not ...get("is_important", False)
\* combined_timeline holds the event objects of case_files themselves
FlipEvent(files, event_index) ==
    LET at == Locate(files, 1, PyIndex(event_index, Len(CombinedTimeline(files))))
        ev == files[at[1]].timeline[at[2]]
    IN  [files EXCEPT ![at[1]].timeline[at[2]] =
            Updated(ev, [is_important |-> ~GetImportant(ev)])]

RECURSIVE WriteBack(_, _, _, _, _, _)
\* The write-back loops of lines 292-298, from document d, event k (1-based)
\* with the counter at current_index.  After the assignment `break` leaves the
\* inner loop only: the outer loop goes on to the next document with
\* current_index still equal to event_index.
WriteBack(files, d, k, current_index, event_index, value) ==
    IF d > Len(files) THEN files
    ELSE IF k > Len(files[d].timeline)
         THEN WriteBack(files, d + 1, 1, current_index, event_index, value)
    ELSE IF current_index = event_index
         THEN WriteBack([files EXCEPT ![d].timeline[k] =
                            Updated(@, [is_important |-> value])],
                        d + 1, 1, current_index, event_index, value)
    ELSE WriteBack(files, d, k + 1, current_index + 1, event_index, value)

\* the documents of the case after a toggle that passed the bounds check
ToggledFiles(files, event_index) ==
    LET flipped == FlipEvent(files, event_index)
        value == CombinedTimeline(flipped)[PyIndex(event_index,
                     Len(CombinedTimeline(files))) + 1].is_important
    IN  WriteBack(flipped, 1, 1, 0, event_index, value)

(***************************************************************************)
(* Inputs of the requests                                                  *)
(***************************************************************************)
\* the process starts one second before midnight: the runs cover requests of
\* the same second, of the next second and of the next day
StartTime == DateTime(2021, 1, 10, LastSecond)

RECURSIVE TimeAfter(_)
TimeAfter(n) == IF n = 0 THEN StartTime ELSE NextSecond(TimeAfter(n - 1))

\* the case identifiers requests name: those a create can have derived
RequestIds == {MakeCaseId(TimeAfter(n)) : n \in 0..MaxTicks}

NoId == MakeCaseId(DateTime(0, 0, 0, 0))

\* uploaded file name with the two form fields
Submission(name, dtag, ktag) ==
    [file_name |-> name, document_tag |-> dtag, key_events_tag |-> ktag]

Submissions ==
    { Submission(<<"plaint", "TXT">>, "Plaint", "Filing"),
      Submission(<<"notes", "exe">>, "Reply", "Hearing") }

Page(layer, ocr) == [layer |-> layer, ocr |-> ocr]

Content(size, text, pages, paragraphs) ==
    [size |-> size, text |-> text, pages |-> pages, paragraphs |-> paragraphs]

\* uploaded bodies, by what each reader finds in them: an empty upload, a
\* blank document, a document with a text layer, a scan that only OCR reads
Contents ==
    { Content(0, <<>>, <<>>, <<>>),
      Content(1, <<" ">>, <<Page(<<>>, <<" ">>)>>, <<<<" ">>>>),
      Content(2, <<"a", " ">>, <<Page(<<"a">>, <<>>), Page(<<>>, <<>>)>>, <<<<"a">>, <<" ">>>>),
      Content(2, <<"\n", "b">>, <<Page(<<" ">>, <<"b">>), Page(<<>>, <<" ">>)>>, <<<<"b">>>>) }

Jan10_2021 == Date("MDY", 1, 10, 2021)
Jan_2021 == Date("MY", 1, 0, 2021)
Y2021 == Date("Y", 0, 0, 2021)
Undated == Date("other", 0, 0, 0)

Event(date, summary) == [document_date |-> date, summary |-> <<summary>>]

Analysis(parties, timeline, pi, di, pg, dg, mm) ==
    [parties |-> parties, timeline |-> timeline,
     issues |-> [plaintiff |-> pi, defendant |-> di],
     grounds |-> [plaintiff |-> pg, defendant |-> dg],
     mismatches |-> mm]

\* the LLM is asked for {document_date, summary} events; here it also
\* volunteers an importance flag
AnalysisA ==
    Analysis([plaintiff |-> "Asha", defendant |-> "Birla"],
             <<Updated(Event(Y2021, "Contract signed"), [is_important |-> TRUE])>>,
             <<"Breach of Section 55">>, <<>>, <<"Written contract">>, <<>>, <<>>)

\* an answer whose events are not in chronological order
AnalysisB ==
    Analysis([plaintiff |-> "Chandra", defendant |-> "Birla"],
             <<Event(Jan10_2021, "Breach occurred"), Event(Jan_2021, "Notice sent")>>,
             <<"Breach of Section 55">>, <<"Late payment">>, <<>>, <<"Limitation">>,
             <<"Two notices on one date">>)

\* an answer with a date in none of the three formats
AnalysisC ==
    Analysis([plaintiff |-> "Asha", defendant |-> "Birla"],
             <<Event(Undated, "Hearing")>>,
             <<>>, <<>>, <<>>, <<>>, <<>>)

\* the object without one of its keys
Without(obj, key) == [k \in (DOMAIN obj) \ {key} |-> obj[k]]

\* an answer with the five required keys whose nested objects are incomplete:
\* no defendant among the parties, no defendant lists of issues and grounds
AnalysisD ==
    [parties |-> [plaintiff |-> "Dev"],
     timeline |-> <<>>,
     issues |-> [plaintiff |-> <<"Eviction without notice">>],
     grounds |-> [plaintiff |-> <<>>],
     mismatches |-> <<>>]

\* what the LLM collaborator answers to an analysis call
LLMReplies ==
    {[kind |-> "json", body |-> a] : a \in {AnalysisA, AnalysisB, AnalysisC, AnalysisD}}
    \cup {[kind |-> "json", body |-> Without(AnalysisA, k)] : k \in required_keys}
    \cup {[kind |-> "text"], [kind |-> "OpenAIError"]}

\* what the LLM collaborator does on a chat call: an answer, an
\* openai.OpenAIError, or any other exception
ChatReplies == {"answer", "OpenAIError", "Exception"}

\* the positions toggle requests name for a case with n events: every valid
\* one, the one before the first, the one equal to the length and one beyond
EventIndexes(n) == -1..(n + 1)

(***************************************************************************)
(* State                                                                   *)
(***************************************************************************)
\* The last request handled and its response.  The fields after `detail` are
\* history kept for the properties; no handler reads them.
Response(op, case_id, status, detail) ==
    [op |-> op, case_id |-> case_id, status |-> status, detail |-> detail,
     event_index |-> -1, is_important |-> FALSE,
     was |-> FALSE, again |-> FALSE, original |-> FALSE,
     found |-> <<>>, peers |-> <<>>]

\* documents without the importance flags of their events
Unflagged(files) ==
    [d \in 1..Len(files) |->
        [files[d] EXCEPT !.timeline =
            [k \in 1..Len(@) |-> Without(@[k], "is_important")]]]

Init ==
    /\ cases = <<>>
    /\ case_files = <<>>
    /\ pending = <<>>
    /\ now = StartTime
    /\ last = Response("start", NoId, 0, "")

\* the locals of a create_case / update_case coroutine at `await file.read()`,
\* and two fields of history that no handler reads:
\*   found  the documents of the case when the request started
\*   peers  the documents that update requests recorded in the case since
Request(op, case_id, sub) ==
    [op |-> op, case_id |-> case_id, file_name |-> sub.file_name,
     document_tag |-> sub.document_tag, key_events_tag |-> sub.key_events_tag,
     found |-> Unflagged(FilesOf(case_files, case_id)), peers |-> <<>>]

\* history: the suspended requests of the case take note of a document that
\* an update recorded
Noted(reqs, case_id, document) ==
    [j \in 1..Len(reqs) |->
        IF reqs[j].case_id = case_id
        THEN [reqs[j] EXCEPT !.peers = @ \o Unflagged(<<document>>)]
        ELSE reqs[j]]

\* d[key] = value on a dict
Assigned(d, key, value) ==
    [k \in (DOMAIN d) \cup {key} |-> IF k = key THEN value ELSE d[k]]

\* a pipeline that goes on to the analysis when the extraction has failed
Pipeline_AnalysesAnyway(req, content, reply, t) ==
    IF content.size = 0
    THEN [status |-> 400, detail |-> "Uploaded file is empty", analysis |-> <<>>]
    ELSE LET a == call_llm_api(reply, req.file_name, t) IN
         IF ~a.ok
         THEN [status |-> 500, detail |-> "OpenAI API error", analysis |-> <<>>]
         ELSE [status |-> 200, detail |-> "", analysis |-> a.value]

\* Lines 207-214 and 243-250, shared by both handlers: the status the request
\* fails with (200 when it does not) and the analysis to record
Pipeline(req, content, reply, t) ==
    IF content.size = 0
    THEN [status |-> 400, detail |-> "Uploaded file is empty", analysis |-> <<>>]
    ELSE IF ~extract_text(content, FileExt(req.file_name)).ok
    THEN [status |-> 400, detail |-> "Error extracting text", analysis |-> <<>>]
    ELSE LET a == call_llm_api(reply, req.file_name, t) IN
         IF ~a.ok
         THEN [status |-> 500, detail |-> "OpenAI API error", analysis |-> <<>>]
         ELSE [status |-> 200, detail |-> "", analysis |-> a.value]

(***************************************************************************)
(* Handlers.  create_case and update_case suspend once, at                 *)
(* `await file.read()`; everything before it and everything after it runs  *)
(* without interruption (call_llm_api contains no await).                  *)
(***************************************************************************)
\* a handler's registry check skipped
NotInCases_Skipped(case_id) == FALSE

\* if case_id not in cases: raise HTTPException(status_code=404, ...)
NotInCases(case_id) == case_id \notin DOMAIN cases

\* POST /create_case up to `await file.read()`, with at most max_pending
\* requests suspended
CreateBeginWithin(sub, max_pending) ==
    IF FileExt(sub.file_name) \notin SupportedExts
    THEN /\ last' = Response("create_case", NoId, 400, "Invalid file type")
         /\ UNCHANGED <<cases, case_files, pending, now>>
    ELSE /\ Len(pending) < max_pending
         /\ Cardinality(DOMAIN cases \cup {MakeCaseId(now)}) <= MaxCases
         /\ cases' = Assigned(cases, MakeCaseId(now), now)
         /\ pending' = Append(pending, Request("create_case", MakeCaseId(now), sub))
         /\ UNCHANGED <<case_files, now, last>>

CreateBegin(sub) == CreateBeginWithin(sub, MaxPending)

\* POST /create_case from `await file.read()` to the response
CreateFinish(i, content, reply) ==
    /\ i \in 1..Len(pending)
    /\ pending[i].op = "create_case"
    /\ LET req == pending[i]
           out == Pipeline(req, content, reply, now)
       IN  /\ pending' = RemoveAt(pending, i)
           /\ last' = Response("create_case", req.case_id, out.status, out.detail)
           /\ IF out.status = 200
              THEN case_files' = Assigned(case_files, req.case_id,
                                          <<MakeDocument(req, out.analysis)>>)
              ELSE UNCHANGED case_files
           /\ UNCHANGED <<cases, now>>

\* an insertion at the front of the list
Appended_InFront(files, document) == <<document>> \o files

\* case_files[case_id].append({...})
Appended(files, document) == Append(files, document)

\* POST /update_case up to `await file.read()`, with at most max_pending
\* requests suspended
UpdateBeginWithin(case_id, sub, max_pending) ==
    IF FileExt(sub.file_name) \notin SupportedExts
    THEN /\ last' = Response("update_case", case_id, 400, "Invalid file type")
         /\ UNCHANGED <<cases, case_files, pending, now>>
    ELSE IF NotInCases(case_id)
    THEN /\ last' = Response("update_case", case_id, 404, "Case not found")
         /\ UNCHANGED <<cases, case_files, pending, now>>
    ELSE /\ Len(pending) < max_pending
         /\ pending' = Append(pending, Request("update_case", case_id, sub))
         /\ UNCHANGED <<cases, case_files, now, last>>

UpdateBegin(case_id, sub) == UpdateBeginWithin(case_id, sub, MaxPending)

\* POST /update_case from `await file.read()` to the response, for a case of
\* fewer than max_docs documents; case_files[case_id] raises KeyError when the
\* case has no document list
UpdateFinishWithin(i, content, reply, max_docs) ==
    /\ i \in 1..Len(pending)
    /\ pending[i].op = "update_case"
    /\ LET req == pending[i]
           out == Pipeline(req, content, reply, now)
       IN  /\ IF out.status # 200
              THEN /\ last' = Response("update_case", req.case_id, out.status, out.detail)
                   /\ pending' = RemoveAt(pending, i)
                   /\ UNCHANGED case_files
              ELSE IF req.case_id \notin DOMAIN case_files
              THEN /\ last' = Response("update_case", req.case_id, 500,
                                       "Internal Server Error")
                   /\ pending' = RemoveAt(pending, i)
                   /\ UNCHANGED case_files
              ELSE /\ Len(case_files[req.case_id]) < max_docs
                   /\ \A j \in 1..Len(pending) : Len(pending[j].peers) < max_docs
                   /\ case_files' = [case_files EXCEPT ![req.case_id] =
                                        Appended(@, MakeDocument(req, out.analysis))]
                   /\ pending' = Noted(RemoveAt(pending, i), req.case_id,
                                       MakeDocument(req, out.analysis))
                   /\ last' = [Response("update_case", req.case_id, 200, "")
                                 EXCEPT !.found = req.found, !.peers = req.peers]
           /\ UNCHANGED <<cases, now>>

UpdateFinish(i, content, reply) == UpdateFinishWithin(i, content, reply, MaxDocs)

\* call_chatbot_llm: "raise" (HTTPException 500), or the text returned
call_chatbot_llm(cf, case_id, chat_reply) ==
    IF case_id \notin DOMAIN cf THEN "apology"
    ELSE IF chat_reply = "OpenAIError" THEN "raise"
    ELSE IF chat_reply = "Exception" THEN "apology"
    ELSE "answer"

\* POST /chat/{case_id}
Chat(case_id, chat_reply) ==
    /\ last' = IF NotInCases(case_id)
               THEN Response("chat", case_id, 404, "Case not found")
               ELSE IF call_chatbot_llm(case_files, case_id, chat_reply) = "raise"
               THEN Response("chat", case_id, 500, "Chatbot API error")
               ELSE Response("chat", case_id, 200,
                             call_chatbot_llm(case_files, case_id, chat_reply))
    /\ UNCHANGED <<cases, case_files, pending, now>>

\* the response to a toggle request, with what the ghost fields record:
\*   was      the flag of the addressed event before this toggle
\*   again    this toggle succeeded and so did the request handled just before
\*            it, a toggle at the same position of the same case
\*   original the flag of the addressed event before the first toggle of the pair
ToggleResponse(case_id, event_index, status, detail, is_important, was) ==
    LET again == /\ status = 200
                 /\ last.op = "toggle_important" /\ last.status = 200
                 /\ last.case_id = case_id /\ last.event_index = event_index
    IN  [Response("toggle_important", case_id, status, detail)
            EXCEPT !.event_index = event_index,
                   !.is_important = is_important,
                   !.was = was,
                   !.again = again,
                   !.original = IF again THEN last.was ELSE was]

\* POST /toggle_important/{case_id}/{event_index}
ToggleImportant(case_id, event_index) ==
    LET files == FilesOf(case_files, case_id)
        combined_timeline == CombinedTimeline(files)
    IN  IF NotInCases(case_id)
        THEN /\ last' = ToggleResponse(case_id, event_index, 404, "Case not found",
                                       FALSE, FALSE)
             /\ UNCHANGED <<cases, case_files, pending, now>>
        ELSE IF InvalidIndex(event_index, Len(combined_timeline))
        THEN /\ last' = ToggleResponse(case_id, event_index, 400, "Invalid event index",
                                       FALSE, FALSE)
             /\ UNCHANGED <<cases, case_files, pending, now>>
        ELSE IF ~InRange(event_index, Len(combined_timeline))
        THEN \* combined_timeline[event_index] raises IndexError
             /\ last' = ToggleResponse(case_id, event_index, 500, "Internal Server Error",
                                       FALSE, FALSE)
             /\ UNCHANGED <<cases, case_files, pending, now>>
        ELSE /\ case_files' = [case_files EXCEPT ![case_id] =
                                  ToggledFiles(files, event_index)]
             /\ last' = ToggleResponse(case_id, event_index, 200, "",
                            ~GetImportant(combined_timeline[PyIndex(event_index,
                                              Len(combined_timeline)) + 1]),
                            GetImportant(combined_timeline[PyIndex(event_index,
                                              Len(combined_timeline)) + 1]))
             /\ UNCHANGED <<cases, pending, now>>

\* a read that sorts the timeline of each stored document in place
GetTimeline_SortsStored(case_id) ==
    /\ last' = IF NotInCases(case_id)
               THEN Response("get_timeline", case_id, 404, "Case not found")
               ELSE IF ReadFails(FilesOf(case_files, case_id))
               THEN Response("get_timeline", case_id, 500, "Internal Server Error")
               ELSE Response("get_timeline", case_id, 200, "")
    /\ case_files' =
          IF NotInCases(case_id) \/ case_id \notin DOMAIN case_files
             \/ ReadFails(FilesOf(case_files, case_id))
          THEN case_files
          ELSE [case_files EXCEPT ![case_id] =
                  [d \in 1..Len(@) |->
                      [@[d] EXCEPT !.timeline = SortedByDate(@, now)]]]
    /\ UNCHANGED <<cases, pending, now>>

\* GET /timeline/{case_id}; the body of a 200 response is
\* MergedView(FilesOf(case_files, case_id), now)
GetTimeline(case_id) ==
    /\ last' = IF NotInCases(case_id)
               THEN Response("get_timeline", case_id, 404, "Case not found")
               ELSE IF ReadFails(FilesOf(case_files, case_id))
               THEN Response("get_timeline", case_id, 500, "Internal Server Error")
               ELSE Response("get_timeline", case_id, 200, "")
    /\ UNCHANGED <<cases, case_files, pending, now>>

\* GET /cases; the body is DOMAIN cases
GetCases ==
    /\ last' = Response("get_cases", NoId, 200, "")
    /\ UNCHANGED <<cases, case_files, pending, now>>

\* a second passes
Tick ==
    /\ Before(now, TimeAfter(MaxTicks))
    /\ now' = NextSecond(now)
    /\ UNCHANGED <<cases, case_files, pending, last>>

Next ==
    \/ \E sub \in Submissions : CreateBegin(sub)
    \/ \E i \in 1..MaxPending, content \in Contents, reply \in LLMReplies :
           CreateFinish(i, content, reply)
    \/ \E case_id \in RequestIds, sub \in Submissions : UpdateBegin(case_id, sub)
    \/ \E i \in 1..MaxPending, content \in Contents, reply \in LLMReplies :
           UpdateFinish(i, content, reply)
    \/ \E case_id \in RequestIds, chat_reply \in ChatReplies : Chat(case_id, chat_reply)
    \/ \E case_id \in RequestIds :
       \E event_index \in EventIndexes(Len(CombinedTimeline(FilesOf(case_files, case_id)))) :
           ToggleImportant(case_id, event_index)
    \/ \E case_id \in RequestIds : GetTimeline(case_id)
    \/ GetCases
    \/ Tick

Spec == Init /\ [][Next]_vars

(***************************************************************************)
(* Overlapping requests: up to MaxOverlap submissions are suspended at     *)
(* `await file.read()` at the same time and resume in any order.  All of   *)
(* them arrive within one clock second.                                    *)
(***************************************************************************)
OverlapCreates == {Submission(<<"plaint", "TXT">>, "Plaint", "Filing")}

OverlapUpdates ==
    { Submission(<<"reply", "txt">>, "Reply", "Hearing"),
      Submission(<<"rejoinder", "txt">>, "Rejoinder", "Hearing") }

\* a document with text
OverlapContents ==
    { Content(2, <<"a", " ">>, <<Page(<<"a">>, <<>>), Page(<<>>, <<>>)>>, <<<<"a">>, <<" ">>>>) }

OverlapReplies == {[kind |-> "json", body |-> AnalysisA]}

NextOverlap ==
    \/ \E sub \in OverlapCreates : CreateBeginWithin(sub, MaxOverlap)
    \/ \E i \in 1..MaxOverlap, content \in OverlapContents, reply \in OverlapReplies :
           CreateFinish(i, content, reply)
    \/ \E case_id \in RequestIds, sub \in OverlapUpdates :
           UpdateBeginWithin(case_id, sub, MaxOverlap)
    \/ \E i \in 1..MaxOverlap, content \in OverlapContents, reply \in OverlapReplies :
           UpdateFinishWithin(i, content, reply, MaxAppended)

SpecOverlap == Init /\ [][NextOverlap]_vars

(***************************************************************************)
(* extract_text on its own: a PDF of up to MaxPages pages is on disk, each *)
(* page with what PyPDF2 finds in its text layer and what pytesseract      *)
(* reads from its image; one call of extract_text reads it.                *)
(***************************************************************************)
\* no text, whitespace only, text
PageLayers == {<<>>, <<" ">>, <<"a">>}
PageScans == {<<>>, <<"\n">>, <<"b">>}

PdfPages == {Page(layer, ocr) : layer \in PageLayers, ocr \in PageScans}

PdfContents ==
    {Content(1, <<>>, pages, <<>>) :
        pages \in UNION {[1..n -> PdfPages] : n \in 0..MaxPages}}

\* the file written at lines 210-211 / 246-247, before extract_text is called
InitExtract ==
    /\ cases = <<>>
    /\ case_files = <<>>
    /\ now = StartTime
    /\ last = Response("start", NoId, 0, "")
    /\ \E content \in PdfContents :
          pending = <<[op |-> "extract_text", content |-> content, file_type |-> "pdf"]>>

\* text = extract_text(file_path, file_ext); the response keeps the call's
\* input and what it returned (ok FALSE: HTTPException 400)
ExtractText ==
    /\ pending # <<>>
    /\ pending[1].op = "extract_text"
    /\ LET result == extract_text(pending[1].content, pending[1].file_type) IN
       last' = Updated(Response("extract_text", NoId,
                                IF result.ok THEN 200 ELSE 400,
                                IF result.ok THEN "" ELSE "Error extracting text"),
                       [content |-> pending[1].content, result |-> result])
    /\ pending' = <<>>
    /\ UNCHANGED <<cases, case_files, now>>

SpecExtract == InitExtract /\ [][ExtractText]_vars

(***************************************************************************)
(* Properties                                                              *)
(***************************************************************************)
\* the importance flags of a case's events, in storage order
Flags(cf, case_id) ==
    [i \in 1..Len(CombinedTimeline(FilesOf(cf, case_id))) |->
        GetImportant(CombinedTimeline(FilesOf(cf, case_id))[i])]

SupportedSubmissions ==
    {sub \in Submissions : FileExt(sub.file_name) \in SupportedExts}

\* the instant a date string in one of the three formats stands for
InThreeForms(d) == d.fmt \in {"MDY", "MY", "Y"}
Instant(d) ==
    IF d.fmt = "MDY" THEN DateTime(d.year, d.month, d.day, 0)
    ELSE IF d.fmt = "MY" THEN DateTime(d.year, d.month, 1, 0)
    ELSE DateTime(d.year, 1, 1, 0)

\* the placeholder content of the record the `except Exception` handler returns
IsFallback(d) ==
    /\ Len(d.timeline) = 1
    /\ d.timeline[1].is_important = FALSE
    /\ d.issues = [plaintiff |-> <<"Error identifying issues">>,
                   defendant |-> <<"Error identifying issues">>]
    /\ d.grounds = [plaintiff |-> <<"Error identifying grounds">>,
                    defendant |-> <<"Error identifying grounds">>]
    /\ d.mismatches = <<"Error analyzing mismatches">>
    /\ d.parties = [plaintiff |-> "Unknown", defendant |-> "Unknown"]

\* number of occurrences of x in the sequence xs
Count(xs, x) == Cardinality({i \in 1..Len(xs) : xs[i] = x})

\* the same elements the same number of times
SameBag(xs, ys) ==
    /\ Len(xs) = Len(ys)
    /\ \A x \in Range(xs) \cup Range(ys) : Count(xs, x) = Count(ys, x)

IsPrefix(xs, ys) == Len(xs) <= Len(ys) /\ SubSeq(ys, 1, Len(xs)) = xs

PartyRoles == {"plaintiff", "defendant"}

\* an analysis of the shape the prompt asks for
WellFormedAnalysis(body) ==
    /\ required_keys \subseteq DOMAIN body
    /\ PartyRoles \subseteq DOMAIN body.parties
    /\ PartyRoles \subseteq DOMAIN body.issues
    /\ PartyRoles \subseteq DOMAIN body.grounds
    /\ \A k \in 1..Len(body.timeline) :
          {"document_date", "summary"} \subseteq DOMAIN body.timeline[k]

\* a well-formed record of a document list
WellFormedDocument(d) ==
    /\ PartyRoles \subseteq DOMAIN d.parties
    /\ PartyRoles \subseteq DOMAIN d.issues
    /\ PartyRoles \subseteq DOMAIN d.grounds
    /\ \A k \in 1..Len(d.timeline) :
          {"document_date", "summary", "is_important"} \subseteq DOMAIN d.timeline[k]

\* the upload reaches the analysis: a body that is not empty, from which the
\* reader of the file's type extracts text
Analysable(req, content) ==
    content.size > 0 /\ extract_text(content, FileExt(req.file_name)).ok

\* date string and summary of each event
DatesAndSummaries(timeline) ==
    [k \in 1..Len(timeline) |->
        [document_date |-> timeline[k].document_date, summary |-> timeline[k].summary]]

\* C1: every case identifier in the registry has a non-empty document list.
C1_RegisteredCaseHasDocuments ==
    \A c \in DOMAIN cases : c \in DOMAIN case_files /\ Len(case_files[c]) > 0

\* C2: an analysis reply that is a JSON object without one of the five
\* required keys makes the create or update request fail (status 500) and
\* records no document, so no fallback record either.
C2_MissingKeyIsHardFailure ==
    [][\A i \in 1..MaxPending, content \in Contents, reply \in LLMReplies :
          ( /\ reply.kind = "json"
            /\ ~(required_keys \subseteq DOMAIN reply.body)
            /\ i <= Len(pending)
            /\ content.size > 0
            /\ extract_text(content, FileExt(pending[i].file_name)).ok
            /\ (CreateFinish(i, content, reply) \/ UpdateFinish(i, content, reply)) )
          => (last'.status = 500 /\ case_files' = case_files)]_vars

\* C3: a successful toggle at position i inverts the flag of the i-th event in
\* storage order and changes no other flag of the case, nor any other case.
C3_ToggleInvertsExactlyOne ==
    [][\A c \in RequestIds :
         \A i \in EventIndexes(Len(Flags(case_files, c))) :
            (last'.status = 200 /\ last'.op = "toggle_important" /\ ToggleImportant(c, i))
            => /\ Flags(case_files', c) = [Flags(case_files, c) EXCEPT ![i + 1] = ~@]
               /\ \A o \in (DOMAIN case_files) \ {c} : case_files'[o] = case_files[o]]_vars

\* C4: after a successful toggle at position i, the entry at position i of
\* the merged (chronologically sorted) timeline has its flag inverted relative
\* to the merged timeline read before the toggle.
C4_ToggleShowsAtMergedPosition ==
    [][\A c \in RequestIds :
         \A i \in EventIndexes(Len(Flags(case_files, c))) :
            (last'.status = 200 /\ last'.op = "toggle_important" /\ ToggleImportant(c, i))
            => GetImportant(MergedTimeline(case_files', c, now')[i + 1])
                   = ~GetImportant(MergedTimeline(case_files, c, now)[i + 1])]_vars

\* C5: two successive successful toggles at the same position of the same
\* case leave the addressed event (the one at that storage position) with the
\* flag it had before the first of them.
C5_DoubleToggleRestores ==
    (last.op = "toggle_important" /\ last.status = 200 /\ last.again)
    => Flags(case_files, last.case_id)[last.event_index + 1] = last.original

C5_Witness ==
    /\ last.op = "toggle_important" /\ last.status = 200 /\ last.again
    /\ last.event_index = 0
    /\ Len(case_files[last.case_id]) = 2
    /\ Len(Flags(case_files, last.case_id)) > 1

\* C6: a toggle on a registered case with a position below 0 or at or beyond
\* the length of the merged timeline is answered 400 "Invalid event index"
\* and changes no flag.
C6_InvalidPositionRejected ==
    [][\A c \in RequestIds :
         \A i \in EventIndexes(Len(Flags(case_files, c))) :
            ( /\ last'.op = "toggle_important"
              /\ c \in DOMAIN cases
              /\ ToggleImportant(c, i)
              /\ (i < 0 \/ i >= Len(MergedTimeline(case_files, c, now))) )
            => /\ last'.status = 400 /\ last'.detail = "Invalid event index"
               /\ Flags(case_files', c) = Flags(case_files, c)
               /\ case_files' = case_files]_vars

C6_Witness ==
    /\ last.op = "toggle_important" /\ last.status = 400
    /\ last.case_id \in DOMAIN case_files
    /\ Len(Flags(case_files, last.case_id)) > 0
    /\ last.event_index = Len(MergedTimeline(case_files, last.case_id, now))

\* C7: a timeline read, a toggle, a chat request or an update with a supported
\* extension that names an identifier absent from the registry is answered
\* 404 "Case not found" and changes neither the registry nor any document list.
C7_UnknownCaseIsNotFound ==
    [][\A c \in RequestIds :
          ( /\ c \notin DOMAIN cases
            /\ \/ GetTimeline(c)
               \/ \E i \in EventIndexes(0) : ToggleImportant(c, i)
               \/ \E r \in ChatReplies : Chat(c, r)
               \/ \E sub \in SupportedSubmissions : UpdateBegin(c, sub) )
          => /\ last'.status = 404 /\ last'.detail = "Case not found"
             /\ cases' = cases /\ case_files' = case_files]_vars

C7_Witness ==
    /\ last.op = "update_case" /\ last.status = 404
    /\ last.case_id \notin DOMAIN cases
    /\ \E c \in DOMAIN case_files : Len(case_files[c]) > 0

\* C8: a chat request for a case without recorded documents is answered 404,
\* whether the identifier is absent from the registry or registered without a
\* document list.
C8_ChatWithoutDocumentsIsNotFound ==
    [][\A c \in RequestIds, r \in ChatReplies :
          (Chat(c, r) /\ FilesOf(case_files, c) = <<>>)
          => last'.status = 404]_vars

\* C9: in the merged timeline of every case, at every time of reading, an
\* event whose date is in one of the three formats never comes after one with
\* a strictly later instant ("Month DD, YYYY" that day, "Month, YYYY" the first
\* of the month, "YYYY" January 1), whatever the order of submission.
C9_MergedTimelineChronological ==
    \A c \in DOMAIN cases :
        LET tl == MergedTimeline(case_files, c, now) IN
        \A i, j \in 1..Len(tl) :
            (i < j /\ InThreeForms(tl[i].document_date)
                   /\ InThreeForms(tl[j].document_date))
            => NotAfter(Instant(tl[i].document_date), Instant(tl[j].document_date))

C9_Witness ==
    /\ last.op = "get_timeline" /\ last.status = 200
    /\ last.case_id \in DOMAIN case_files
    /\ LET files == case_files[last.case_id] IN
       /\ Len(files) = 2
       /\ files[1].timeline[1].document_date = Jan10_2021
       /\ files[2].timeline[1].document_date = Y2021
       /\ MergedTimeline(case_files, last.case_id, now)[1].document_date = Jan_2021

\* a full-date event, a month-year event of its month and a year-only event of
\* its year, at positions f, m and y of a timeline
IsTriple(tl, f, m, y) ==
    /\ tl[f].document_date.fmt = "MDY"
    /\ tl[m].document_date.fmt = "MY"
    /\ tl[y].document_date.fmt = "Y"
    /\ tl[m].document_date.month = tl[f].document_date.month
    /\ tl[m].document_date.year = tl[f].document_date.year
    /\ tl[y].document_date.year = tl[f].document_date.year

\* the events of a timeline that stand for the instant x
AtInstant(tl, x) ==
    LET same(e) == InThreeForms(e.document_date) /\ Instant(e.document_date) = x
    IN  SelectSeq(tl, same)

\* C10 as stated: the merged timeline lists the full date first, then the
\* month-year event, then the year-only event.
C10_FullThenMonthThenYear ==
    \A c \in DOMAIN cases :
        LET tl == MergedTimeline(case_files, c, now) IN
        \A f, m, y \in 1..Len(tl) :
            IsTriple(tl, f, m, y) => (f < m /\ m < y)

\* C10 amended: the three events are listed by instant, the year-only event
\* (January 1) and the month-year event (first of the month) in front of the
\* full date unless they stand for the same instant, and events that stand
\* for the same instant in their storage order.
C10_TripleByInstantThenStorage ==
    \A c \in DOMAIN cases :
        LET tl == MergedTimeline(case_files, c, now)
            stored == CombinedTimeline(FilesOf(case_files, c))
        IN
        \A f, m, y \in 1..Len(tl) :
            IsTriple(tl, f, m, y)
            => /\ tl[f].document_date.day > 1 => m < f
               /\ (tl[f].document_date.day > 1 \/ tl[f].document_date.month > 1) => y < f
               /\ tl[m].document_date.month > 1 => y < m
               /\ \A p \in {f, m, y} :
                     AtInstant(tl, Instant(tl[p].document_date))
                         = AtInstant(stored, Instant(tl[p].document_date))

C10_Witness ==
    /\ last.op = "get_timeline" /\ last.status = 200
    /\ LET tl == MergedTimeline(case_files, last.case_id, now) IN
       /\ \E f, m, y \in 1..Len(tl) : IsTriple(tl, f, m, y)
       /\ tl[1].document_date = Y2021
       /\ tl[2].document_date = Jan_2021

\* C11: right after a create whose extraction succeeded and whose analysis
\* returned a well-formed timeline of n events, the timeline read of the case
\* returns exactly n events with the date strings and summaries the LLM
\* returned, every one with is_important false, whatever flag the LLM supplied.
C11_CreateThenReadReturnsEvents ==
    [][(last'.op = "create_case" /\ last'.status = 200 /\ Len(pending') < Len(pending))
       => \A i \in 1..MaxPending, content \in Contents, reply \in LLMReplies :
          ( /\ reply.kind = "json"
            /\ WellFormedAnalysis(reply.body)
            /\ CreateFinish(i, content, reply) )
          => LET tl == MergedTimeline(case_files', last'.case_id, now') IN
             /\ ~ReadFails(FilesOf(case_files', last'.case_id))
             /\ Len(tl) = Len(reply.body.timeline)
             /\ SameBag(DatesAndSummaries(tl), DatesAndSummaries(reply.body.timeline))
             /\ \A k \in 1..Len(tl) : tl[k].is_important = FALSE]_vars

C11_Witness ==
    /\ last.op = "create_case" /\ last.status = 200
    /\ Len(case_files[last.case_id][1].timeline) = 1
    /\ case_files[last.case_id][1].timeline[1].summary = <<"Contract signed">>
    /\ case_files[last.case_id][1].timeline[1].is_important = FALSE
    /\ "is_important" \in DOMAIN AnalysisA.timeline[1]
    /\ AnalysisA.timeline[1].is_important

\* the strings that the documents contribute to a merged list
Contributed(files, F(_)) == Concat([d \in 1..Len(files) |-> F(files[d])])

\* every contributed string exactly once and nothing else
EachOnce(merged, contributed) ==
    contributed # <<>>
    => /\ \A x \in Range(contributed) : Count(merged, x) = 1
       /\ Range(merged) \subseteq Range(contributed)

\* C12: in the view a timeline read returns, each of the seven merged lists
\* to which some document contributes a string holds every contributed
\* string exactly once and nothing else.
C12_MergedListsHoldEachStringOnce ==
    \A c \in DOMAIN cases :
        LET files == FilesOf(case_files, c) IN
        ~ReadFails(files)
        => LET view == MergedView(files, now) IN
           /\ EachOnce(view.plaintiff_issues, Contributed(files, LAMBDA d : d.issues.plaintiff))
           /\ EachOnce(view.defendant_issues, Contributed(files, LAMBDA d : d.issues.defendant))
           /\ EachOnce(view.plaintiff_grounds, Contributed(files, LAMBDA d : d.grounds.plaintiff))
           /\ EachOnce(view.defendant_grounds, Contributed(files, LAMBDA d : d.grounds.defendant))
           /\ EachOnce(view.mismatches, Contributed(files, LAMBDA d : d.mismatches))
           /\ EachOnce(view.document_tags, Contributed(files, LAMBDA d : <<d.document_tag>>))
           /\ EachOnce(view.key_events_tags, Contributed(files, LAMBDA d : <<d.key_events_tag>>))

C12_Witness ==
    /\ last.op = "get_timeline" /\ last.status = 200
    /\ last.case_id \in DOMAIN case_files
    /\ LET files == case_files[last.case_id] IN
       /\ Len(files) = 2
       /\ files[1].issues.plaintiff = <<"Breach of Section 55">>
       /\ files[2].issues.plaintiff = <<"Breach of Section 55">>
       /\ files[1].parties # files[2].parties
       /\ MergedView(files, now).plaintiff_issues = <<"Breach of Section 55">>

\* the value of a Parties field in the last document that set it
LastSet(files, role, unknown) ==
    LET setters == {d \in 1..Len(files) : role \in DOMAIN files[d].parties} IN
    IF setters = {} THEN unknown
    ELSE files[CHOOSE d \in setters : \A e \in setters : e <= d].parties[role]

\* C13: in the view a timeline read returns, each Parties field has the value
\* of the last document in storage order that set it, and "Unknown Plaintiff"
\* / "Unknown Defendant" when no document of the case set it.
C13_PartiesLastDocumentWins ==
    \A c \in DOMAIN cases :
        LET files == FilesOf(case_files, c) IN
        ~ReadFails(files)
        => LET parties == MergedView(files, now).parties IN
           /\ parties.plaintiff = LastSet(files, "plaintiff", "Unknown Plaintiff")
           /\ parties.defendant = LastSet(files, "defendant", "Unknown Defendant")

C13_Witness ==
    /\ last.op = "get_timeline" /\ last.status = 200
    /\ last.case_id \in DOMAIN case_files
    /\ LET files == case_files[last.case_id] IN
       /\ Len(files) = 2
       /\ files[1].parties.plaintiff = "Asha"
       /\ files[2].parties.plaintiff = "Chandra"
       /\ MergedView(files, now).parties.plaintiff = "Chandra"

\* a create or update request resumes and ends
Resumed ==
    /\ last'.op \in {"create_case", "update_case"}
    /\ Len(pending') < Len(pending)

\* C14: a create or update whose analysis ends with an exception other than
\* the collaborator's service error (the reply is not JSON, or lacks a
\* required key) succeeds and records one more document, the fallback record:
\* one event with is_important false and the fixed placeholder texts, the
\* same for every such failure.
C14_AnalysisFailureRecordsFallback ==
    [][Resumed
       => \A i \in 1..MaxPending, content \in Contents, reply \in LLMReplies :
          ( /\ \/ reply.kind = "text"
               \/ reply.kind = "json" /\ ~(required_keys \subseteq DOMAIN reply.body)
            /\ i <= Len(pending)
            /\ Analysable(pending[i], content)
            /\ (CreateFinish(i, content, reply) \/ UpdateFinish(i, content, reply)) )
          => /\ last'.status = 200
             /\ last'.case_id \in DOMAIN case_files'
             /\ LET docs == case_files'[last'.case_id] IN
                /\ Len(docs) = IF pending[i].op = "create_case" THEN 1
                               ELSE Len(FilesOf(case_files, last'.case_id)) + 1
                /\ IsFallback(docs[Len(docs)])]_vars

\* C15: a create or update during whose analysis the LLM collaborator raises
\* its service error ends with status 500 and leaves every document list as
\* it was.
C15_ServiceErrorIsHardFailure ==
    [][Resumed
       => \A i \in 1..MaxPending, content \in Contents, reply \in LLMReplies :
          ( /\ reply.kind = "OpenAIError"
            /\ i <= Len(pending)
            /\ Analysable(pending[i], content)
            /\ (CreateFinish(i, content, reply) \/ UpdateFinish(i, content, reply)) )
          => (last'.status = 500 /\ case_files' = case_files)]_vars

C15_Witness ==
    /\ last.op = "update_case" /\ last.status = 500
    /\ last.detail = "OpenAI API error"
    /\ Len(FilesOf(case_files, last.case_id)) > 0

\* C16: a create or update rejected for an extension other than pdf, docx
\* and txt, for an empty body, or because no text can be extracted ends with
\* status 400 and leaves every document list as it was.
C16_RejectedUploadRecordsNothing ==
    [][/\ \A sub \in Submissions :
             ( /\ FileExt(sub.file_name) \notin {"pdf", "docx", "txt"}
               /\ (CreateBegin(sub) \/ \E c \in RequestIds : UpdateBegin(c, sub)) )
             => (last'.status = 400 /\ case_files' = case_files)
       /\ Resumed
          => \A i \in 1..MaxPending, content \in Contents, reply \in LLMReplies :
             ( /\ i <= Len(pending)
               /\ ~Analysable(pending[i], content)
               /\ (CreateFinish(i, content, reply) \/ UpdateFinish(i, content, reply)) )
             => (last'.status = 400 /\ case_files' = case_files)]_vars

C16_Witness ==
    /\ last.op = "update_case" /\ last.status = 400
    /\ last.detail = "Error extracting text"
    /\ Len(FilesOf(case_files, last.case_id)) > 0

\* C17: every step leaves each case's document list with the list before the
\* step as a prefix, importance flags aside.
C17_DocumentListAppendOnly ==
    [][\A c \in DOMAIN case_files :
          /\ c \in DOMAIN case_files'
          /\ IsPrefix(Unflagged(case_files[c]), Unflagged(case_files'[c]))]_vars

\* C18: every record of every document list is well-formed, whatever the
\* LLM returned, and a timeline read of a case with documents does not fail.
C18_RecordsWellFormed ==
    \A c \in DOMAIN case_files :
        /\ \A d \in 1..Len(case_files[c]) : WellFormedDocument(case_files[c][d])
        /\ ~ReadFails(case_files[c])

\* C19: when an update succeeds and other updates of the same case succeeded
\* while it was suspended, the document list starts with the documents the
\* case had when the update started, and holds after them the document of
\* each of those updates and its own, each as many times as it was recorded.
C19_OverlappingUpdatesBothRecorded ==
    (last.op = "update_case" /\ last.status = 200 /\ last.peers # <<>>)
    => LET docs == Unflagged(FilesOf(case_files, last.case_id))
           since == SubSeq(docs, Len(last.found) + 1, Len(docs))
           recorded == last.peers \o <<docs[Len(docs)]>>
       IN  /\ IsPrefix(last.found, docs)
           /\ \A x \in Range(recorded) : Count(since, x) = Count(recorded, x)

\* C20: an update for an identifier of the registry, with a body that is
\* not empty and yields text and an analysis of the requested shape, is
\* answered 200 and appends its document, also when the case has no document
\* list yet.
C20_UpdateOfListedCaseAppends ==
    [][Resumed
       => \A i \in 1..MaxPending, content \in Contents, reply \in LLMReplies :
          ( /\ reply.kind = "json"
            /\ WellFormedAnalysis(reply.body)
            /\ i <= Len(pending)
            /\ pending[i].case_id \in DOMAIN cases
            /\ Analysable(pending[i], content)
            /\ UpdateFinish(i, content, reply) )
          => /\ last'.status = 200
             /\ last'.case_id \in DOMAIN case_files'
             /\ Unflagged(case_files'[last'.case_id])
                  = Unflagged(Append(FilesOf(case_files, last'.case_id),
                                     MakeDocument(pending[i], StampEvents(reply.body))))]_vars

\* some page has non-whitespace text in its text layer / in its OCR reading
SomeLayerText(pages) == \E p \in 1..Len(pages) : HasText(pages[p].layer)
SomeScanText(pages) == \E p \in 1..Len(pages) : HasText(pages[p].ocr)

\* C21: for a pdf, OCR runs only when the PDF has a page and no page's text
\* layer holds non-whitespace text; when some text layer does, the text of
\* the layers (up to the first 5000 characters) is returned and OCR is not
\* run; the extraction fails for a PDF without pages, without running OCR,
\* and when no page's OCR reading holds non-whitespace text either.
C21_OcrOnlyWithoutTextLayer ==
    last.op = "extract_text"
    => LET pages == last.content.pages
           result == last.result
       IN  /\ result.ocr_run => (Len(pages) >= 1 /\ ~SomeLayerText(pages))
           /\ SomeLayerText(pages)
              => /\ result.ok /\ ~result.ocr_run
                 /\ result.text
                      = Truncate(Concat([p \in 1..Len(pages) |-> pages[p].layer]))
           /\ Len(pages) = 0 => (~result.ok /\ ~result.ocr_run)
           /\ (~SomeLayerText(pages) /\ ~SomeScanText(pages)) => ~result.ok

C21_Witness ==
    /\ last.op = "extract_text"
    /\ Len(last.content.pages) = 2
    /\ ~SomeLayerText(last.content.pages)
    /\ last.content.pages[1].layer = <<" ">>
    /\ last.result.ok /\ last.result.ocr_run
    /\ last.result.text = <<"b", "\n", "b">>

\* C22: a timeline read, a case listing and a chat request leave the
\* registry and every document list as they were, so the events of each case
\* keep their storage order and their flags, and every position a toggle can
\* name addresses the same event after the request as before it.
C22_ReadsLeaveStorageAlone ==
    [][last'.op \in {"get_timeline", "get_cases", "chat"}
       => \A c \in RequestIds :
          (GetTimeline(c) \/ GetCases \/ \E r \in ChatReplies : Chat(c, r))
          => /\ cases' = cases
             /\ case_files' = case_files
             /\ \A o \in RequestIds :
                   /\ Flags(case_files', o) = Flags(case_files, o)
                   /\ CombinedTimeline(FilesOf(case_files', o))
                        = CombinedTimeline(FilesOf(case_files, o))]_vars

C22_Witness ==
    /\ last.op = "get_timeline" /\ last.status = 200
    /\ LET stored == CombinedTimeline(FilesOf(case_files, last.case_id)) IN
       /\ MergedTimeline(case_files, last.case_id, now) # stored
       /\ \E k \in 1..Len(stored) : GetImportant(stored[k])

\* C23: an update that records its document leaves every event the case
\* already had at its storage position, with its importance flag.
C23_AppendKeepsEventsAndFlags ==
    [][( /\ last'.op = "update_case" /\ last'.status = 200
         /\ Len(pending') < Len(pending)
         /\ \E i \in 1..MaxPending, content \in Contents, reply \in LLMReplies :
               UpdateFinish(i, content, reply) )
       => LET before == CombinedTimeline(FilesOf(case_files, last'.case_id))
              after == CombinedTimeline(FilesOf(case_files', last'.case_id))
          IN  /\ Len(after) >= Len(before)
              /\ \A k \in 1..Len(before) : after[k] = before[k]]_vars

C23_Witness ==
    /\ last.op = "update_case" /\ last.status = 200
    /\ Len(FilesOf(case_files, last.case_id)) = 2
    /\ Len(case_files[last.case_id][1].timeline) > 0
    /\ Len(case_files[last.case_id][2].timeline) > 0
    /\ GetImportant(case_files[last.case_id][1].timeline[1])

====
